---------------------------- MODULE Spec2Model ----------------------------
(***************************************************************************)
(* SAP IBP XYZ segmentation and write-back.                                *)
(*                                                                         *)
(* The module holds eight state machines over one set of variables:        *)
(*   Spec          the write dispatcher of app/services/sap_write_service  *)
(*                 (simple, batched and parallel modes);                   *)
(*   SpecClassify  the three X/Y/Z classifiers (pure functions);           *)
(*   SpecBatches   the batch splitters (pure functions);                   *)
(*   SpecRoute     the HTTP entry points that run an analysis; the         *)
(*                 write-segments route runs the engine and the write      *)
(*                 dispatcher;                                             *)
(*   SpecAnalyze   the analysis engine                                     *)
(*                 (DynamicAnalysisService.calculate_dynamic_xyz_          *)
(*                 segmentation);                                          *)
(*   SpecPayload   the payload builder (SAPWriteService._prepare_payload); *)
(*   SpecConfig    the construction of a SegmentationConfig;               *)
(*   SpecClient    the retry loop of SAPClient._make_request.              *)
(* SpecFair is Spec with weak fairness, for the liveness of sessions.      *)
(* Each specification leaves the variables of the others unchanged.        *)
(***************************************************************************)
EXTENDS Integers, Sequences, FiniteSets, TLC

VARIABLES
    \* ---- write dispatcher (SAPWriteService) ----
    mode,                \* "simple" | "batched" | "parallel"
    columns,             \* segment_data.columns
    segment_data,        \* the rows of segment_data, each a function column -> value
    primary_key,
    version_id,          \* "" is None
    scenario_id,         \* "" is None
    batch_size,
    req_max_workers,     \* XYZWriteRequest.max_workers (NoneInt is None)
    max_workers,         \* the max_workers argument of write_segments_parallel
    enable_null_handling,
    pc,                  \* position of the calling thread
    transaction_id,      \* "" until generated / obtained
    batches,             \* the list of batches
    idx,                 \* batched: the batch being sent; parallel: the next to submit
    batch_state,         \* batch index -> "unsubmitted" | "queued" | "running" | "inflight" | "ok" | "failed"
    collected,           \* parallel: futures already yielded by as_completed
    results,             \* parallel: results list (batch indices)
    failed_batches,      \* parallel: failed_batches list
    sends,               \* POSTs to <planning_area>Trans issued so far, in order
    commits,             \* POSTs to /commit issued so far (their Transactionid, outcome)
    exports,             \* GETs of /GetExportResult issued so far
    initiates,           \* POSTs to /InitiateParallelProcess issued so far
    session,             \* the calling thread's session: "none" | "open" | "closed"
    error,               \* the exception raised to the caller (NoError if none)
    result,              \* the dict returned to the caller (NoResult if none)
    \* ---- classifiers ----
    cv, x_threshold, y_threshold, segment,
    \* ---- batch splitters ----
    data, split_size, split_out,
    \* ---- routes ----
    route, request, rpc, fetch_calls, http_status,
    \* ---- analysis engine ----
    df,                  \* the observations: rows [PRDID, ACTUALSQTY]
    config,              \* the SegmentationConfig
    analysis,            \* what the engine returned or raised
    \* ---- payload builder ----
    payload_args,        \* the arguments of _prepare_payload
    payload_out,           \* what it returned or raised
    \* ---- SegmentationConfig construction ----
    config_args,         \* the keyword arguments given to SegmentationConfig
    config_out,          \* "accepted" | "rejected" ("" before construction)
    \* ---- SAPClient._make_request ----
    method,              \* the HTTP method of the call
    max_retries,         \* SAPClient.max_retries
    attempt,             \* the loop variable of range(max_retries)
    history,             \* the outcome of each attempt made so far
    call_outcome         \* how the call ended ("" while it runs)

writeVars == <<mode, columns, segment_data, primary_key, version_id, scenario_id,
               batch_size, req_max_workers, max_workers, enable_null_handling, pc,
               transaction_id, batches, idx, batch_state, collected, results,
               failed_batches, sends, commits, exports, initiates, session, error,
               result>>
classifyVars == <<cv, x_threshold, y_threshold, segment>>
batchVars == <<data, split_size, split_out>>
routeVars == <<route, request, rpc, fetch_calls, http_status>>
engineVars == <<df, config, analysis>>
payloadVars == <<payload_args, payload_out>>
configVars == <<config_args, config_out>>
clientVars == <<method, max_retries, attempt, history, call_outcome>>
vars == <<writeVars, classifyVars, batchVars, routeVars, engineVars, payloadVars,
          configVars, clientVars>>

(***************************************************************************)
(* Bounds of the model.                                                    *)
(***************************************************************************)
MaxRecords == 3
MaxBatchSize == 2
MaxWorkers == 2

(***************************************************************************)
(* Values.                                                                 *)
(***************************************************************************)
NA == "<NA>"           \* a null cell (None / NaN): pd.notna is false on it
NoneInt == -1          \* None where an integer is expected
TxIds == {"TXA", "TXB"}
TransportErrors == {"HTTP 500"}

Min(a, b) == IF a <= b THEN a ELSE b
InSeq(e, s) == \E i \in 1..Len(s) : s[i] = e
Range(s) == {s[i] : i \in 1..Len(s)}

\* settings.SAP_XYZ_KEY_FIGURE, settings.SAP_PLANNING_AREA
xyz_key_figure == "XYZSEG"
period_field_default == "PERIODID3_TSTAMP"

\* datetime.utcnow().strftime(...): the clock's value at the call
UtcNow == "2026-01-01T12:00:00"

\* str(value) of a cell that holds a string
Str(v) == v

\* 'T' in timestamp_str, for the period values of the model
HasT(s) == s \in {"2024-01-01T00:00:00", "2024-02-01T08:30:00", UtcNow}

(***************************************************************************)
(* SAPWriteService._prepare_payload                                        *)
(***************************************************************************)
\* line 89: the primary key must be a column of segment_data
payload_raises(cols, pk) == ~InSeq(pk, cols)

dimension_cols(cols, period_field) ==
    SelectSeq(cols, LAMBDA c : c \notin {"XYZ_Segment", period_field,
                                         "mean", "std", "CV", "count"})

agg_fields_list(cols, pk, period_field, null_handling) ==
    <<pk>>
    \o SelectSeq(dimension_cols(cols, period_field), LAMBDA d : d # pk)
    \o <<xyz_key_figure>>
    \o (IF null_handling THEN <<xyz_key_figure \o "_isNull">> ELSE <<>>)
    \o <<period_field>>

\* faulty variant: a bare date is sent as it is
period_value_as_given(cols, row, period_field) ==
    IF InSeq(period_field, cols) /\ row[period_field] # NA
    THEN Str(row[period_field])
    ELSE UtcNow

period_value(cols, row, period_field) ==
    IF InSeq(period_field, cols) /\ row[period_field] # NA
    THEN IF HasT(Str(row[period_field]))
         THEN Str(row[period_field])
         ELSE Str(row[period_field]) \o "T00:00:00"
    ELSE UtcNow

\* one record of nav_data: the (field, value) pairs in insertion order
nav_record(cols, row, pk, period_field) ==
    LET dims == SelectSeq(dimension_cols(cols, period_field),
                          LAMBDA d : d # pk /\ row[d] # NA)
    IN  (IF InSeq(pk, cols) /\ row[pk] # NA THEN << <<pk, Str(row[pk])>> >> ELSE <<>>)
        \o [i \in 1..Len(dims) |-> <<dims[i], Str(row[dims[i]])>>]
        \o << <<xyz_key_figure, Str(row["XYZ_Segment"])>> >>
        \o << <<xyz_key_figure \o "_isNull", "False">> >>
        \o << <<period_field, period_value(cols, row, period_field)>> >>

\* sep.join(list)
RECURSIVE join(_, _)
join(sep, list) ==
    IF list = <<>> THEN ""
    ELSE IF Len(list) = 1 THEN list[1]
    ELSE list[1] \o sep \o join(sep, Tail(list))

\* The payload dict.  VersionID / ScenarioID "" and DoCommit FALSE stand for
\* the key being absent: the code adds each key only when its value is truthy.
prepare_payload(cols, rows, tid, pk, version, scenario, period_field, do_commit, null_handling) ==
    [ Transactionid |-> tid,
      AggregationLevelFieldsString |->
          join(",", agg_fields_list(cols, pk, period_field, null_handling)),
      Nav |-> [i \in 1..Len(rows) |-> nav_record(cols, rows[i], pk, period_field)],
      VersionID |-> version,
      ScenarioID |-> scenario,
      DoCommit |-> do_commit ]

(***************************************************************************)
(* Batch splitting: [segment_data[i:i+batch_size]                          *)
(*                   for i in range(0, record_count, batch_size)]          *)
(***************************************************************************)
\* range(start, stop, step) as the list of its elements
RECURSIVE py_range(_, _, _)
py_range(start, stop, step) ==
    IF start >= stop THEN <<>> ELSE <<start>> \o py_range(start + step, stop, step)

\* faulty variant: the slice stops one element early
py_slice_short(s, a, b) == SubSeq(s, a + 1, Min(b - 1, Len(s)))

\* s[a:b] for 0 <= a <= b (Python clamps b to len(s))
py_slice(s, a, b) == SubSeq(s, a + 1, Min(b, Len(s)))

split_batches(rows, size) ==
    LET starts == py_range(0, Len(rows), size)
    IN  [k \in 1..Len(starts) |-> py_slice(rows, starts[k], starts[k] + size)]

(***************************************************************************)
(* The write dispatcher.                                                   *)
(***************************************************************************)
Modes == {"simple", "batched", "parallel"}

NoError == [text |-> <<>>, idx |-> 0, failed |-> <<>>]
NoResult == [status |-> "", transaction_id |-> "", export_status |-> ""]

\* Exception(f"...{...}"): the fixed text and the strings interpolated into it
\* (text), the batch index interpolated (idx, 0 if none) and the list of batch
\* indices interpolated (failed).
Raise(text, i, failed) == [text |-> text, idx |-> i, failed |-> failed]

\* the rows the dispatcher is given: n classified groups keyed by PRDID
SegmentLetter(i) == IF i % 3 = 1 THEN "X" ELSE IF i % 3 = 2 THEN "Y" ELSE "Z"
SegmentRow(i) == [PRDID |-> "P" \o ToString(i), XYZ_Segment |-> SegmentLetter(i)]
SegmentRows(n) == [i \in 1..n |-> SegmentRow(i)]

\* XYZWriteRequest.max_workers: Optional[int], ge=1, le=10
max_workers_ge == 1
max_workers_le == 10
max_workers_default == 4
request_max_workers_valid(w) == w = NoneInt \/ (w >= max_workers_ge /\ w <= max_workers_le)

WriteInit ==
    /\ mode \in Modes
    /\ columns = <<"PRDID", "XYZ_Segment">>
    /\ segment_data \in {SegmentRows(n) : n \in 0..MaxRecords}
    /\ primary_key \in {"PRDID", "LOCID"}
    /\ version_id \in {"", "V1"}
    /\ scenario_id \in {"", "S1"}
    /\ enable_null_handling \in BOOLEAN
    /\ batch_size \in (IF mode = "simple" THEN {NoneInt} ELSE 1..MaxBatchSize)
    /\ req_max_workers \in (IF mode = "parallel"
                            THEN {NoneInt, max_workers_le + 1} \cup (1..MaxWorkers)
                            ELSE {NoneInt})
    /\ max_workers = NoneInt
    /\ pc = "request"
    /\ transaction_id = ""
    /\ batches = <<>>
    /\ idx = 0
    /\ batch_state = <<>>
    /\ collected = {}
    /\ results = <<>>
    /\ failed_batches = <<>>
    /\ sends = <<>>
    /\ commits = <<>>
    /\ exports = <<>>
    /\ initiates = <<>>
    /\ session = "none"
    /\ error = NoError
    /\ result = NoResult

\* the variables that hold the call's arguments and the service's settings
inputVars == <<mode, columns, segment_data, primary_key, version_id, scenario_id, batch_size, req_max_workers, enable_null_handling>>

\* ---- request validation (XYZWriteRequest) and the route's call ----
\* max_workers=request.max_workers or 4
ValidateRequest ==
    /\ pc = "request"
    /\ IF request_max_workers_valid(req_max_workers)
       THEN /\ max_workers' = (IF req_max_workers = NoneInt THEN max_workers_default
                               ELSE req_max_workers)
            /\ pc' = "start"
       ELSE /\ max_workers' = max_workers
            /\ pc' = "rejected"
    /\ UNCHANGED <<inputVars, transaction_id, batches, idx, batch_state, collected, results, failed_batches, sends, commits, exports, initiates, session, error, result>>
    /\ UNCHANGED <<classifyVars, batchVars, routeVars, engineVars, payloadVars, configVars, clientVars>>

\* ---- _get_csrf_token ----
csrf_at == IF mode = "simple" THEN "csrf" ELSE "start"
after_csrf == CASE mode = "simple" -> "post" [] mode = "batched" -> "begin" [] OTHER -> "initiate"

GetCsrfOk ==
    /\ pc = csrf_at
    /\ session' = "open"
    /\ pc' = after_csrf
    /\ UNCHANGED <<inputVars, max_workers, transaction_id, batches, idx, batch_state, collected, results, failed_batches, sends, commits, exports, initiates, error, result>>
    /\ UNCHANGED <<classifyVars, batchVars, routeVars, engineVars, payloadVars, configVars, clientVars>>

\* the GET fails or the header is missing: the exception leaves the caller
\* before its try block, and the session object is not closed
GetCsrfFail ==
    /\ pc = csrf_at
    /\ \E cause \in TransportErrors \cup {"CSRF token not found in response headers"} :
          error' = Raise(<<"Failed to obtain CSRF token: ", cause>>, 0, <<>>)
    /\ session' = "open"
    /\ pc' = "failed"
    /\ UNCHANGED <<inputVars, max_workers, transaction_id, batches, idx, batch_state, collected, results, failed_batches, sends, commits, exports, initiates, result>>
    /\ UNCHANGED <<classifyVars, batchVars, routeVars, engineVars, payloadVars, configVars, clientVars>>

\* ---- write_segments_simple ----
\* lines 202-214: the transaction id is generated, then the payload is built
SimplePrepare ==
    /\ pc = "start" /\ mode = "simple"
    /\ \E tid \in TxIds : transaction_id' = tid
    /\ IF payload_raises(columns, primary_key)
       THEN /\ error' = Raise(<<"Primary key ", primary_key, " not found in segment_data">>, 0, <<>>)
            /\ pc' = "failed"
       ELSE /\ error' = error
            /\ pc' = "csrf"
    /\ UNCHANGED <<inputVars, max_workers, batches, idx, batch_state, collected, results, failed_batches, sends, commits, exports, initiates, session, result>>
    /\ UNCHANGED <<classifyVars, batchVars, routeVars, engineVars, payloadVars, configVars, clientVars>>

\* faulty variant: the single request is sent without the commit flag
simple_payload_no_commit == prepare_payload(columns, segment_data, transaction_id, primary_key, version_id, scenario_id, period_field_default, FALSE, enable_null_handling)

simple_payload == prepare_payload(columns, segment_data, transaction_id, primary_key, version_id, scenario_id, period_field_default, TRUE, enable_null_handling)

SimplePostOk ==
    /\ pc = "post"
    /\ sends' = Append(sends, [batch |-> 0, payload |-> simple_payload])
    /\ result' = [status |-> "success", transaction_id |-> transaction_id, export_status |-> ""]
    /\ session' = "closed"
    /\ pc' = "done"
    /\ UNCHANGED <<inputVars, max_workers, transaction_id, batches, idx, batch_state, collected, results, failed_batches, commits, exports, initiates, error>>
    /\ UNCHANGED <<classifyVars, batchVars, routeVars, engineVars, payloadVars, configVars, clientVars>>

SimplePostFail ==
    /\ pc = "post"
    /\ sends' = Append(sends, [batch |-> 0, payload |-> simple_payload])
    /\ \E cause \in TransportErrors :
          error' = Raise(<<"Failed to write data to SAP: ", cause>>, 0, <<>>)
    /\ session' = "closed"
    /\ pc' = "failed"
    /\ UNCHANGED <<inputVars, max_workers, transaction_id, batches, idx, batch_state, collected, results, failed_batches, commits, exports, initiates, result>>
    /\ UNCHANGED <<classifyVars, batchVars, routeVars, engineVars, payloadVars, configVars, clientVars>>

\* ---- write_segments_batched ----
\* lines 310-316: the transaction id is generated and the data split
BatchedBegin ==
    /\ pc = "begin"
    /\ \E tid \in TxIds : transaction_id' = tid
    /\ batches' = split_batches(segment_data, batch_size)
    /\ batch_state' = [k \in 1..Len(batches') |-> "unsubmitted"]
    /\ idx' = 1
    /\ pc' = "loop"
    /\ UNCHANGED <<inputVars, max_workers, collected, results, failed_batches, sends, commits, exports, initiates, session, error, result>>
    /\ UNCHANGED <<classifyVars, batchVars, routeVars, engineVars, payloadVars, configVars, clientVars>>

\* faulty variant: every batch asks for a commit
batched_payload_commits(k) == prepare_payload(columns, batches[k], transaction_id, primary_key, version_id, scenario_id, period_field_default, TRUE, enable_null_handling)

batched_payload(k) == prepare_payload(columns, batches[k], transaction_id, primary_key, version_id, scenario_id, period_field_default, FALSE, enable_null_handling)

\* line 324: _prepare_payload raises ValueError, which the except clause of
\* line 347 does not catch
BatchedPayloadRaises ==
    /\ pc = "loop" /\ idx <= Len(batches)
    /\ payload_raises(columns, primary_key)
    /\ error' = Raise(<<"Primary key ", primary_key, " not found in segment_data">>, 0, <<>>)
    /\ session' = "closed"
    /\ pc' = "failed"
    /\ UNCHANGED <<inputVars, max_workers, transaction_id, batches, idx, batch_state, collected, results, failed_batches, sends, commits, exports, initiates, result>>
    /\ UNCHANGED <<classifyVars, batchVars, routeVars, engineVars, payloadVars, configVars, clientVars>>

BatchedSendOk ==
    /\ pc = "loop" /\ idx <= Len(batches)
    /\ ~payload_raises(columns, primary_key)
    /\ sends' = Append(sends, [batch |-> idx, payload |-> batched_payload(idx)])
    /\ batch_state' = [batch_state EXCEPT ![idx] = "ok"]
    /\ idx' = idx + 1
    /\ UNCHANGED <<inputVars, max_workers, pc, transaction_id, batches, collected, results, failed_batches, commits, exports, initiates, session, error, result>>
    /\ UNCHANGED <<classifyVars, batchVars, routeVars, engineVars, payloadVars, configVars, clientVars>>

\* faulty variant: a failed batch is logged and the loop goes on
BatchedSendFail_continues ==
    /\ pc = "loop" /\ idx <= Len(batches)
    /\ ~payload_raises(columns, primary_key)
    /\ sends' = Append(sends, [batch |-> idx, payload |-> batched_payload(idx)])
    /\ batch_state' = [batch_state EXCEPT ![idx] = "failed"]
    /\ idx' = idx + 1
    /\ UNCHANGED <<inputVars, max_workers, pc, transaction_id, batches, collected, results, failed_batches, commits, exports, initiates, session, error, result>>
    /\ UNCHANGED <<classifyVars, batchVars, routeVars, engineVars, payloadVars, configVars, clientVars>>

\* faulty variant: a failed batch is sent again
BatchedSendFail_retries ==
    /\ pc = "loop" /\ idx <= Len(batches)
    /\ ~payload_raises(columns, primary_key)
    /\ Len(sends) < Len(batches) + 2
    /\ sends' = Append(sends, [batch |-> idx, payload |-> batched_payload(idx)])
    /\ UNCHANGED <<inputVars, max_workers, pc, transaction_id, batches, idx, batch_state, collected, results, failed_batches, commits, exports, initiates, session, error, result>>
    /\ UNCHANGED <<classifyVars, batchVars, routeVars, engineVars, payloadVars, configVars, clientVars>>

\* lines 347-349
BatchedSendFail ==
    /\ pc = "loop" /\ idx <= Len(batches)
    /\ ~payload_raises(columns, primary_key)
    /\ sends' = Append(sends, [batch |-> idx, payload |-> batched_payload(idx)])
    /\ batch_state' = [batch_state EXCEPT ![idx] = "failed"]
    /\ \E cause \in TransportErrors :
          error' = Raise(<<"Failed to send batch ", ": ", cause>>, idx, <<>>)
    /\ session' = "closed"
    /\ pc' = "failed"
    /\ UNCHANGED <<inputVars, max_workers, transaction_id, batches, idx, collected, results, failed_batches, commits, exports, initiates, result>>
    /\ UNCHANGED <<classifyVars, batchVars, routeVars, engineVars, payloadVars, configVars, clientVars>>

\* the for loop is exhausted
BatchedLoopEnd ==
    /\ pc = "loop" /\ idx > Len(batches)
    /\ pc' = "commit"
    /\ UNCHANGED <<inputVars, max_workers, transaction_id, batches, idx, batch_state, collected, results, failed_batches, sends, commits, exports, initiates, session, error, result>>
    /\ UNCHANGED <<classifyVars, batchVars, routeVars, engineVars, payloadVars, configVars, clientVars>>

\* ---- _commit_transaction ----
CommitOk ==
    /\ pc = "commit"
    /\ commits' = Append(commits, [Transactionid |-> transaction_id, ok |-> TRUE])
    /\ pc' = "export"
    /\ UNCHANGED <<inputVars, max_workers, transaction_id, batches, idx, batch_state, collected, results, failed_batches, sends, exports, initiates, session, error, result>>
    /\ UNCHANGED <<classifyVars, batchVars, routeVars, engineVars, payloadVars, configVars, clientVars>>

\* faulty variant: the session is left open when the commit fails
CommitFail_leaks ==
    /\ pc = "commit"
    /\ commits' = Append(commits, [Transactionid |-> transaction_id, ok |-> FALSE])
    /\ \E cause \in TransportErrors :
          error' = Raise(<<"Failed to commit transaction: ", cause>>, 0, <<>>)
    /\ pc' = "failed"
    /\ UNCHANGED <<inputVars, max_workers, transaction_id, batches, idx, batch_state, collected, results, failed_batches, sends, exports, initiates, session, result>>
    /\ UNCHANGED <<classifyVars, batchVars, routeVars, engineVars, payloadVars, configVars, clientVars>>

\* lines 531-534 (and the finally clause of the caller)
CommitFail ==
    /\ pc = "commit"
    /\ commits' = Append(commits, [Transactionid |-> transaction_id, ok |-> FALSE])
    /\ \E cause \in TransportErrors :
          error' = Raise(<<"Failed to commit transaction: ", cause>>, 0, <<>>)
    /\ session' = "closed"
    /\ pc' = "failed"
    /\ UNCHANGED <<inputVars, max_workers, transaction_id, batches, idx, batch_state, collected, results, failed_batches, sends, exports, initiates, result>>
    /\ UNCHANGED <<classifyVars, batchVars, routeVars, engineVars, payloadVars, configVars, clientVars>>

\* ---- _get_export_result, then the return of the write ----
ExportOk ==
    /\ pc = "export"
    /\ exports' = Append(exports, [Transactionid |-> transaction_id, ok |-> TRUE])
    /\ result' = [status |-> "success", transaction_id |-> transaction_id, export_status |-> "retrieved"]
    /\ session' = "closed"
    /\ pc' = "done"
    /\ UNCHANGED <<inputVars, max_workers, transaction_id, batches, idx, batch_state, collected, results, failed_batches, sends, commits, initiates, error>>
    /\ UNCHANGED <<classifyVars, batchVars, routeVars, engineVars, payloadVars, configVars, clientVars>>

\* faulty variant: a failed result-verification call fails the write
ExportFail_raises ==
    /\ pc = "export"
    /\ exports' = Append(exports, [Transactionid |-> transaction_id, ok |-> FALSE])
    /\ \E cause \in TransportErrors :
          error' = Raise(<<"Failed to get export result: ", cause>>, 0, <<>>)
    /\ session' = "closed"
    /\ pc' = "failed"
    /\ UNCHANGED <<inputVars, max_workers, transaction_id, batches, idx, batch_state, collected, results, failed_batches, sends, commits, initiates, result>>
    /\ UNCHANGED <<classifyVars, batchVars, routeVars, engineVars, payloadVars, configVars, clientVars>>

\* lines 556-558: the failure is logged and {"status": "unknown"} returned
ExportFail ==
    /\ pc = "export"
    /\ exports' = Append(exports, [Transactionid |-> transaction_id, ok |-> FALSE])
    /\ result' = [status |-> "success", transaction_id |-> transaction_id, export_status |-> "unknown"]
    /\ session' = "closed"
    /\ pc' = "done"
    /\ UNCHANGED <<inputVars, max_workers, transaction_id, batches, idx, batch_state, collected, results, failed_batches, sends, commits, initiates, error>>
    /\ UNCHANGED <<classifyVars, batchVars, routeVars, engineVars, payloadVars, configVars, clientVars>>

\* ---- write_segments_parallel ----
initiate_request == [PlanningArea |-> "SAPIBP1", VersionID |-> version_id, ScenarioID |-> scenario_id]

\* lines 407-417: the sink answers with a transaction id; the data is split
InitiateOk ==
    /\ pc = "initiate"
    /\ initiates' = Append(initiates, initiate_request)
    /\ \E tid \in TxIds : transaction_id' = tid
    /\ batches' = split_batches(segment_data, batch_size)
    /\ batch_state' = [k \in 1..Len(batches') |-> "unsubmitted"]
    /\ idx' = 1
    /\ pc' = "submit"
    /\ UNCHANGED <<inputVars, max_workers, collected, results, failed_batches, sends, commits, exports, session, error, result>>
    /\ UNCHANGED <<classifyVars, batchVars, routeVars, engineVars, payloadVars, configVars, clientVars>>

\* lines 620-633: the request fails, or its answer holds no TransactionID;
\* the exception is re-raised as it is
InitiateFail ==
    /\ pc = "initiate"
    /\ initiates' = Append(initiates, initiate_request)
    /\ \E cause \in TransportErrors \cup {"Transaction ID not found in response"} :
          error' = Raise(<<cause>>, 0, <<>>)
    /\ session' = "closed"
    /\ pc' = "failed"
    /\ UNCHANGED <<inputVars, max_workers, transaction_id, batches, idx, batch_state, collected, results, failed_batches, sends, commits, exports, result>>
    /\ UNCHANGED <<classifyVars, batchVars, routeVars, engineVars, payloadVars, configVars, clientVars>>

\* lines 426-437: executor.submit for the next batch
Submit ==
    /\ pc = "submit" /\ idx <= Len(batches)
    /\ batch_state' = [batch_state EXCEPT ![idx] = "queued"]
    /\ idx' = idx + 1
    /\ UNCHANGED <<inputVars, max_workers, pc, transaction_id, batches, collected, results, failed_batches, sends, commits, exports, initiates, session, error, result>>
    /\ UNCHANGED <<classifyVars, batchVars, routeVars, engineVars, payloadVars, configVars, clientVars>>

SubmitDone ==
    /\ pc = "submit" /\ idx > Len(batches)
    /\ pc' = "collect"
    /\ UNCHANGED <<inputVars, max_workers, transaction_id, batches, idx, batch_state, collected, results, failed_batches, sends, commits, exports, initiates, session, error, result>>
    /\ UNCHANGED <<classifyVars, batchVars, routeVars, engineVars, payloadVars, configVars, clientVars>>

\* the worker threads of ThreadPoolExecutor(max_workers): busy with a task
busy == {k \in DOMAIN batch_state : batch_state[k] \in {"running", "inflight"}}
in_flight == {k \in DOMAIN batch_state : batch_state[k] = "inflight"}

\* faulty variant: a thread per task
worker_always_available == TRUE

\* a worker thread is free (at most max_workers threads exist)
worker_available == Cardinality(busy) < max_workers

\* a free worker takes the oldest queued task and enters _send_batch_parallel
\* (lines 647-648: its own session)
WorkerTake(k) ==
    /\ batch_state[k] = "queued"
    /\ \A j \in 1..(k - 1) : batch_state[j] # "queued"
    /\ worker_available
    /\ batch_state' = [batch_state EXCEPT ![k] = "running"]
    /\ UNCHANGED <<inputVars, max_workers, pc, transaction_id, batches, idx, collected, results, failed_batches, sends, commits, exports, initiates, session, error, result>>
    /\ UNCHANGED <<classifyVars, batchVars, routeVars, engineVars, payloadVars, configVars, clientVars>>

\* lines 647-648 and 676-677: the session a worker creates on entering
\* _send_batch_parallel and closes in its finally clause
worker_session(k) ==
    CASE batch_state[k] \in {"unsubmitted", "queued"} -> "none"
      [] batch_state[k] \in {"running", "inflight"} -> "open"
      [] OTHER -> "closed"

\* faulty variant: every worker generates a transaction id of its own
parallel_payload_own_tid(k) == prepare_payload(columns, batches[k], IF k = 1 THEN "TXA" ELSE "TXB", primary_key, "", "", period_field_default, FALSE, enable_null_handling)

\* lines 651-657: no version_id, no scenario_id are passed on
parallel_payload(k) == prepare_payload(columns, batches[k], transaction_id, primary_key, "", "", period_field_default, FALSE, enable_null_handling)

\* lines 651-667: the payload is built and the POST issued; a ValueError of
\* _prepare_payload ends the task (finally: the worker's session is closed)
WorkerPost(k) ==
    /\ batch_state[k] = "running"
    /\ IF payload_raises(columns, primary_key)
       THEN /\ batch_state' = [batch_state EXCEPT ![k] = "failed"]
            /\ sends' = sends
       ELSE /\ batch_state' = [batch_state EXCEPT ![k] = "inflight"]
            /\ sends' = Append(sends, [batch |-> k, payload |-> parallel_payload(k)])
    /\ UNCHANGED <<inputVars, max_workers, pc, transaction_id, batches, idx, collected, results, failed_batches, commits, exports, initiates, session, error, result>>
    /\ UNCHANGED <<classifyVars, batchVars, routeVars, engineVars, payloadVars, configVars, clientVars>>

WorkerAck(k) ==
    /\ batch_state[k] = "inflight"
    /\ batch_state' = [batch_state EXCEPT ![k] = "ok"]
    /\ UNCHANGED <<inputVars, max_workers, pc, transaction_id, batches, idx, collected, results, failed_batches, sends, commits, exports, initiates, session, error, result>>
    /\ UNCHANGED <<classifyVars, batchVars, routeVars, engineVars, payloadVars, configVars, clientVars>>

WorkerFail(k) ==
    /\ batch_state[k] = "inflight"
    /\ batch_state' = [batch_state EXCEPT ![k] = "failed"]
    /\ UNCHANGED <<inputVars, max_workers, pc, transaction_id, batches, idx, collected, results, failed_batches, sends, commits, exports, initiates, session, error, result>>
    /\ UNCHANGED <<classifyVars, batchVars, routeVars, engineVars, payloadVars, configVars, clientVars>>

\* faulty variant: the exception of a future is swallowed
Collect_swallows(k) ==
    /\ pc = "collect"
    /\ k \notin collected
    /\ batch_state[k] \in {"ok", "failed"}
    /\ collected' = collected \cup {k}
    /\ results' = Append(results, k)
    /\ failed_batches' = failed_batches
    /\ UNCHANGED <<inputVars, max_workers, pc, transaction_id, batches, idx, batch_state, sends, commits, exports, initiates, session, error, result>>
    /\ UNCHANGED <<classifyVars, batchVars, routeVars, engineVars, payloadVars, configVars, clientVars>>

\* lines 439-447: as_completed yields a finished future
Collect(k) ==
    /\ pc = "collect"
    /\ k \notin collected
    /\ batch_state[k] \in {"ok", "failed"}
    /\ collected' = collected \cup {k}
    /\ IF batch_state[k] = "ok"
       THEN results' = Append(results, k) /\ failed_batches' = failed_batches
       ELSE failed_batches' = Append(failed_batches, k) /\ results' = results
    /\ UNCHANGED <<inputVars, max_workers, pc, transaction_id, batches, idx, batch_state, sends, commits, exports, initiates, session, error, result>>
    /\ UNCHANGED <<classifyVars, batchVars, routeVars, engineVars, payloadVars, configVars, clientVars>>

\* faulty variant: the decision is taken without waiting for the futures
all_collected_no_barrier == TRUE

\* faulty variant: the first failure ends the wait for the other futures
all_collected_fail_fast == collected = DOMAIN batch_state \/ failed_batches # <<>>

\* as_completed is exhausted and the executor has shut down
all_collected == collected = DOMAIN batch_state

\* lines 449-451
ParallelRaise ==
    /\ pc = "collect" /\ all_collected
    /\ failed_batches # <<>>
    /\ error' = Raise(<<"Some batches failed: ">>, 0, failed_batches)
    /\ session' = "closed"
    /\ pc' = "failed"
    /\ UNCHANGED <<inputVars, max_workers, transaction_id, batches, idx, batch_state, collected, results, failed_batches, sends, commits, exports, initiates, result>>
    /\ UNCHANGED <<classifyVars, batchVars, routeVars, engineVars, payloadVars, configVars, clientVars>>

\* line 453
ParallelProceed ==
    /\ pc = "collect" /\ all_collected
    /\ failed_batches = <<>>
    /\ pc' = "commit"
    /\ UNCHANGED <<inputVars, max_workers, transaction_id, batches, idx, batch_state, collected, results, failed_batches, sends, commits, exports, initiates, session, error, result>>
    /\ UNCHANGED <<classifyVars, batchVars, routeVars, engineVars, payloadVars, configVars, clientVars>>

\* the scheduler runs any enabled step of any task
WorkersTake == \E k \in DOMAIN batch_state : WorkerTake(k)
WorkersPost == \E k \in DOMAIN batch_state : WorkerPost(k)
WorkersAck == \E k \in DOMAIN batch_state : WorkerAck(k)
WorkersFail == \E k \in DOMAIN batch_state : WorkerFail(k)
CollectAny == \E k \in DOMAIN batch_state : Collect(k)

\* the variables of a state machine that is not running
IdleClassify == cv = 0 /\ x_threshold = 0 /\ y_threshold = 0 /\ segment = <<>>
IdleBatches == data = <<>> /\ split_size = 0 /\ split_out = <<>>
IdleRoute == route = "" /\ request = <<>> /\ rpc = "" /\ fetch_calls = 0 /\ http_status = 0
IdleWrite ==
    /\ mode = "" /\ columns = <<>> /\ segment_data = <<>> /\ primary_key = ""
    /\ version_id = "" /\ scenario_id = "" /\ batch_size = 0 /\ req_max_workers = 0
    /\ max_workers = 0 /\ enable_null_handling = FALSE /\ pc = "" /\ transaction_id = ""
    /\ batches = <<>> /\ idx = 0 /\ batch_state = <<>> /\ collected = {} /\ results = <<>>
    /\ failed_batches = <<>> /\ sends = <<>> /\ commits = <<>> /\ exports = <<>>
    /\ initiates = <<>> /\ session = "" /\ error = NoError /\ result = NoResult

IdleEngine == df = <<>> /\ config = <<>> /\ analysis = <<>>
IdlePayload == payload_args = <<>> /\ payload_out = <<>>
IdleConfig == config_args = <<>> /\ config_out = ""
IdleClient == method = "" /\ max_retries = 0 /\ attempt = 0 /\ history = <<>> /\ call_outcome = ""
IdleOthers == IdleConfig /\ IdleClient

Init == WriteInit /\ IdleClassify /\ IdleBatches /\ IdleRoute /\ IdleEngine /\ IdlePayload /\ IdleOthers

Next ==
    \/ ValidateRequest
    \/ GetCsrfOk \/ GetCsrfFail
    \/ SimplePrepare \/ SimplePostOk \/ SimplePostFail
    \/ BatchedBegin \/ BatchedPayloadRaises \/ BatchedSendOk \/ BatchedSendFail \/ BatchedLoopEnd
    \/ CommitOk \/ CommitFail \/ ExportOk \/ ExportFail
    \/ InitiateOk \/ InitiateFail \/ Submit \/ SubmitDone
    \/ WorkersTake \/ WorkersPost \/ WorkersAck \/ WorkersFail \/ CollectAny
    \/ ParallelRaise \/ ParallelProceed

Spec == Init /\ [][Next]_vars

(***************************************************************************)
(* The classifiers.                                                        *)
(***************************************************************************)
MaxThreshold == 4
cv_sentinel == 999

\* np.select(conditions, choices, default): the choice of the first condition
\* that holds
RECURSIVE np_select(_, _, _)
np_select(conditions, choices, default) ==
    IF conditions = <<>> THEN default
    ELSE IF Head(conditions) THEN Head(choices)
    ELSE np_select(Tail(conditions), Tail(choices), default)

\* DynamicAnalysisService.calculate_dynamic_xyz_segmentation, lines 242-249
dynamic_xyz_segment(v, x, y) ==
    np_select(<<v <= x, (v > x) /\ (v <= y), v > y>>, <<"X", "Y", "Z">>, "Unknown")

\* AnalysisService.calculate_xyz_segmentation, lines 46-53
basic_xyz_segment(v, x, y) ==
    np_select(<<v <= x, (v > x) /\ (v <= y), v > y>>, <<"X", "Y", "Z">>, "Unknown")

\* faulty variant: the boundary value falls into the next band up
classify_segment_strict(value, x, y) ==
    IF value < x THEN "X" ELSE IF value < y THEN "Y" ELSE "Z"

\* XYZSegmentationService._classify_segment
classify_segment(value, x, y) ==
    IF value <= x THEN "X" ELSE IF value <= y THEN "Y" ELSE "Z"

\* the CV values of the model: negative (negative mean), the thresholds'
\* grid and its neighbours, and the sentinel of an infinite CV
CVValues == (-1..(MaxThreshold + 1)) \cup {cv_sentinel}

ClassifyInit ==
    /\ cv \in CVValues
    /\ x_threshold \in 0..MaxThreshold
    /\ y_threshold \in 0..MaxThreshold
    /\ segment = <<>>

Classify ==
    /\ segment = <<>>
    /\ segment' = [dynamic |-> dynamic_xyz_segment(cv, x_threshold, y_threshold),
                   basic |-> basic_xyz_segment(cv, x_threshold, y_threshold),
                   service |-> classify_segment(cv, x_threshold, y_threshold)]
    /\ UNCHANGED <<cv, x_threshold, y_threshold>>
    /\ UNCHANGED <<writeVars, batchVars, routeVars, engineVars, payloadVars, configVars, clientVars>>

InitClassify == ClassifyInit /\ IdleWrite /\ IdleBatches /\ IdleRoute /\ IdleEngine /\ IdlePayload /\ IdleOthers
NextClassify == Classify
SpecClassify == InitClassify /\ [][NextClassify]_vars

(***************************************************************************)
(* The batch splitters.                                                    *)
(***************************************************************************)
MaxSplitLen == 4
MaxSplitSize == 3

\* ImportService._create_batches: the loop over range(0, len(data), batch_size)
RECURSIVE create_batches_from(_, _, _)
create_batches_from(rows, size, i) ==
    IF i >= Len(rows) THEN <<>>
    ELSE <<py_slice(rows, i, i + size)>> \o create_batches_from(rows, size, i + size)

create_batches(rows, size) == create_batches_from(rows, size, 0)

SeqsUpTo(S, n) == UNION {[1..m -> S] : m \in 0..n}

BatchesInit ==
    /\ data \in SeqsUpTo({"a", "b"}, MaxSplitLen)
    /\ split_size \in 1..MaxSplitSize
    /\ split_out = <<>>

\* the dispatchers' and the import service's split of one record list
SplitAll ==
    /\ split_out = <<>>
    /\ split_out' = << [by |-> "write_segments", batches |-> split_batches(data, split_size)],
                       [by |-> "create_batches", batches |-> create_batches(data, split_size)] >>
    /\ UNCHANGED <<data, split_size>>
    /\ UNCHANGED <<writeVars, classifyVars, routeVars, engineVars, payloadVars, configVars, clientVars>>

InitBatches == BatchesInit /\ IdleWrite /\ IdleClassify /\ IdleRoute /\ IdleEngine /\ IdlePayload /\ IdleOthers
NextBatches == SplitAll
SpecBatches == InitBatches /\ [][NextBatches]_vars

(***************************************************************************)
(* The analysis engine:                                                    *)
(* DynamicAnalysisService.calculate_dynamic_xyz_segmentation.              *)
(* The statistics are kept exact: a group is summarised by its count n,    *)
(* its sum S and its sum of squares Q.  With SS = n*Q - S*S:               *)
(*   mean = S / n,  std^2 = SS / (n*(n-1))  (sample, pandas),              *)
(*   population std^2 = SS / (n*n)  (scipy zscore),                        *)
(*   CV^2 = 10000 * n * SS / ((n-1) * S*S).                                *)
(***************************************************************************)
MaxObs == 4

\* the quantities and the group keys of the model (NA: a null PRDID)
Quantities == <<-1, 0, 2>>
GroupKeys == <<"P1", "P2">>

\* SegmentationConfig.min_periods: Field(6, ge=3)
min_periods_ge == 3
\* SegmentationConfig.outlier_threshold, in halves: Field(3.0, ge=1.5, le=5.0)
outlier_threshold_x2_ge == 3
outlier_threshold_x2_default == 6

RECURSIVE series_sum(_)
series_sum(v) == IF v = <<>> THEN 0 ELSE Head(v) + series_sum(Tail(v))

group_rows(rows, key) == SelectSeq(rows, LAMBDA r : r.PRDID = key)
group_count(g) == Len(g)
group_sum(g) == series_sum([i \in 1..Len(g) |-> g[i].ACTUALSQTY])
group_sumsq(g) == series_sum([i \in 1..Len(g) |-> g[i].ACTUALSQTY * g[i].ACTUALSQTY])
group_ss(g) == group_count(g) * group_sumsq(g) - group_sum(g) * group_sum(g)

\* df.groupby(groupby_attributes): the keys in sorted order; rows whose key
\* is null belong to no group (dropna=True)
groupby_keys(rows) ==
    SelectSeq(GroupKeys, LAMBDA k : \E i \in DOMAIN rows : rows[i].PRDID = k)

\* _remove_outliers: np.abs(stats.zscore(group)) < outlier_threshold row by
\* row; a group of constant values has zscore NaN, and NaN < t is False
zscore_keeps(g, r, t2) ==
    LET d == group_count(g) * r.ACTUALSQTY - group_sum(g)
    IN  4 * d * d < t2 * t2 * group_ss(g)

RECURSIVE concat_groups(_, _, _)
concat_groups(rows, keys, t2) ==
    IF keys = <<>> THEN <<>>
    ELSE LET g == group_rows(rows, Head(keys))
         IN  SelectSeq(g, LAMBDA r : zscore_keeps(g, r, t2))
             \o concat_groups(rows, Tail(keys), t2)

remove_outliers(rows, t2) == concat_groups(rows, groupby_keys(rows), t2)

\* A CV value is a sign and the fraction num/den of its square; den = 0
\* marks the values that are not numbers: NaN (num = 0) and inf (num = 1).
cv_zero == [sign |-> 0, num |-> 0, den |-> 1]
cv_nan == [sign |-> 0, num |-> 0, den |-> 0]
cv_inf == [sign |-> 1, num |-> 1, den |-> 0]
cv_inf_replaced == [sign |-> 1, num |-> cv_sentinel * cv_sentinel, den |-> 1]
is_nan(c) == c.den = 0 /\ c.num = 0
is_inf(c) == c.den = 0 /\ c.num = 1

\* line 235: (std / mean) * 100
raw_cv(g) ==
    LET n == group_count(g)
        S == group_sum(g)
        SS == group_ss(g)
    IN  IF n = 1 THEN cv_nan                        \* std of one value is NaN
        ELSE IF S = 0 /\ SS = 0 THEN cv_nan         \* 0/0
        ELSE IF S = 0 THEN cv_inf                   \* std/0
        ELSE IF SS = 0 THEN cv_zero                 \* std is 0
        ELSE [sign |-> IF S > 0 THEN 1 ELSE -1,
              num |-> 10000 * n * SS, den |-> (n - 1) * S * S]

\* faulty variant: NaN is left in the CV column
fillna_skipped(c) == c

\* line 238: fillna(0)
fillna(c) == IF is_nan(c) THEN cv_zero ELSE c

\* line 239: replace([np.inf, -np.inf], 999)
replace_inf(c) == IF is_inf(c) THEN cv_inf_replaced ELSE c

group_cv(g) == replace_inf(fillna(raw_cv(g)))

\* CV <= t and CV > t for a threshold t >= 0 (both False for NaN)
cv_le(c, t) == ~is_nan(c) /\ ~(is_inf(c) /\ c.sign > 0) /\ (c.sign <= 0 \/ c.num <= t * t * c.den)
cv_gt(c, t) == ~is_nan(c) /\ ~cv_le(c, t)

\* lines 242-249
xyz_segment_of(c, x, y) ==
    np_select(<<cv_le(c, x), cv_gt(c, x) /\ cv_le(c, y), cv_gt(c, y)>>,
              <<"X", "Y", "Z">>, "Unknown")

\* an empty dict
EmptyDict == [k \in {} |-> 0]

group_stats_all(rows) ==
    LET keys == groupby_keys(rows)
    IN  [i \in 1..Len(keys) |->
            [PRDID |-> keys[i], count |-> group_count(group_rows(rows, keys[i]))]]

\* faulty variant: a group with exactly min_periods observations is dropped
min_periods_filter_strict(stats, min_periods) ==
    SelectSeq(stats, LAMBDA g : g.count > min_periods)

\* line 225: group_stats[group_stats['count'] >= config.min_periods]
min_periods_filter(stats, min_periods) ==
    SelectSeq(stats, LAMBDA g : g.count >= min_periods)

\* the columns of the observations
df_columns == <<"PRDID", "ACTUALSQTY">>

\* faulty variant: the attributes are not checked
missing_attrs_unchecked(attrs, cols) == <<>>

\* line 203: [attr for attr in config.groupby_attributes if attr not in df.columns]
missing_attrs(attrs, cols) == SelectSeq(attrs, LAMBDA attr : ~InSeq(attr, cols))

\* faulty variant: the report counts the rows given to analyze
total_records_of_input(rows, clean) == Len(rows)

\* line 255: len(df), df being the frame after the outlier removal of line 210
total_records_analyzed(rows, clean) == Len(clean)

\* What calculate_dynamic_xyz_segmentation(df, config) returns or raises:
\* status, the result frame, the report, the attributes named by the
\* ValueError, and the stages that ran, in order.
calculate_dynamic_xyz_segmentation(rows, cfg) ==
    IF rows = <<>>
    THEN [status |-> "returned", result_df |-> <<>>, data_quality |-> EmptyDict,
          missing |-> <<>>, steps |-> <<>>]
    ELSE IF missing_attrs(cfg.groupby_attributes, df_columns) # <<>>
    THEN [status |-> "raised", result_df |-> <<>>, data_quality |-> EmptyDict,
          missing |-> missing_attrs(cfg.groupby_attributes, df_columns),
          steps |-> <<"validate">>]
    ELSE
    LET clean == IF cfg.remove_outliers
                 THEN remove_outliers(rows, cfg.outlier_threshold_x2) ELSE rows
        all == group_stats_all(clean)
        kept == min_periods_filter(all, cfg.min_periods)
        excluded_count == Len(all) - Len(kept)
        classified == [i \in 1..Len(kept) |->
                     LET c == group_cv(group_rows(clean, kept[i].PRDID))
                     IN  [PRDID |-> kept[i].PRDID, count |-> kept[i].count, CV |-> c,
                          XYZ_Segment |-> xyz_segment_of(c, cfg.x_threshold, cfg.y_threshold)]]
    IN  [status |-> "returned", result_df |-> classified,
         data_quality |-> [total_records_analyzed |-> total_records_analyzed(rows, clean),
                           unique_segments |-> Len(kept),
                           records_with_sufficient_history |-> Len(kept),
                           records_excluded |-> excluded_count],
         missing |-> <<>>,
         steps |-> (IF cfg.remove_outliers THEN <<"validate", "remove_outliers">>
                    ELSE <<"validate">>) \o <<"groupby", "min_periods", "classify", "report">>]

\* the observation sets of the model: per key a list of quantities in
\* ascending order (at most MaxObs of P1, one fewer of P2), and at most one
\* row of null key
SortedSeqs(n) ==
    {v \in SeqsUpTo(Range(Quantities), n) :
        \A i \in 1..(Len(v) - 1) : v[i] <= v[i + 1]}
rows_of(key, v) == [i \in 1..Len(v) |-> [PRDID |-> key, ACTUALSQTY |-> v[i]]]
Frames ==
    {rows_of("P1", a) \o rows_of("P2", b) \o rows_of(NA, c) :
        a \in SortedSeqs(MaxObs), b \in SortedSeqs(MaxObs - 1), c \in {<<>>, <<2>>}}

\* the valid threshold pairs of the model
ThresholdPairs == {<<0, 25>>, <<10, 25>>, <<10, 90>>, <<70, 90>>, <<70, 100>>}

segmentation_config(attrs, x, y, mp, ro, t2) ==
    [groupby_attributes |-> attrs, x_threshold |-> x, y_threshold |-> y,
     min_periods |-> mp, remove_outliers |-> ro, outlier_threshold_x2 |-> t2]

Configs ==
    {segmentation_config(<<"PRDID">>, p[1], p[2], mp, FALSE, outlier_threshold_x2_default) :
        p \in ThresholdPairs, mp \in {min_periods_ge, min_periods_ge + 1}}
    \cup
    {segmentation_config(<<"PRDID">>, p[1], p[2], mp, TRUE, t2) :
        p \in ThresholdPairs, mp \in {min_periods_ge, min_periods_ge + 1},
        t2 \in {outlier_threshold_x2_ge, outlier_threshold_x2_default}}
    \cup
    {segmentation_config(attrs, 10, 25, min_periods_ge, ro, outlier_threshold_x2_default) :
        attrs \in {<<"PRDID", "LOCID">>, <<"CUSTID", "PRDID", "LOCID">>}, ro \in BOOLEAN}

EngineInit ==
    /\ df \in Frames
    /\ config \in Configs
    /\ analysis = <<>>

Analyze ==
    /\ analysis = <<>>
    /\ analysis' = calculate_dynamic_xyz_segmentation(df, config)
    /\ UNCHANGED <<df, config>>
    /\ UNCHANGED <<writeVars, classifyVars, batchVars, routeVars, payloadVars, configVars, clientVars>>

InitAnalyze ==
    EngineInit /\ IdleWrite /\ IdleClassify /\ IdleBatches /\ IdleRoute /\ IdlePayload /\ IdleOthers
NextAnalyze == Analyze
SpecAnalyze == InitAnalyze /\ [][NextAnalyze]_vars

(***************************************************************************)
(* The entry points that run an analysis:                                  *)
(*   POST /dynamic-segmentation/analyze, /dynamic-segmentation/preview     *)
(*   (body: SegmentationConfig) and POST /xyz-write/write-segments         *)
(*   (body: XYZWriteRequest).                                              *)
(***************************************************************************)
\* settings.DEFAULT_X_THRESHOLD, DEFAULT_Y_THRESHOLD and the defaults of the
\* SegmentationConfig fields
default_x_threshold == 10
default_y_threshold == 25
threshold_ge == 0
threshold_le == 100

\* the threshold values of a request (NoneInt: the field is not given)
ThresholdValues == {NoneInt, 0, 5, 10, 25, 30, 101}

\* SegmentationConfig: Field(ge=0, le=100) on both thresholds; the validator
\* of y_threshold runs only on a given value (a default is not validated) and
\* compares only when x_threshold was itself valid
field_in_range(v) == v >= threshold_ge /\ v <= threshold_le
config_x(x) == IF x = NoneInt THEN default_x_threshold ELSE x
config_y(y) == IF y = NoneInt THEN default_y_threshold ELSE y

\* faulty variant: the validator accepts y_threshold = x_threshold
validate_thresholds_weak(x, y) == y = NoneInt \/ ~field_in_range(config_x(x)) \/ y >= config_x(x)

validate_thresholds(x, y) == y = NoneInt \/ ~field_in_range(config_x(x)) \/ y > config_x(x)

segmentation_config_valid(x, y) ==
    /\ field_in_range(config_x(x))
    /\ field_in_range(config_y(y))
    /\ validate_thresholds(x, y)

\* request.x_threshold or settings.DEFAULT_X_THRESHOLD (None and 0 are falsy)
or_default(v, d) == IF v = NoneInt \/ v = 0 THEN d ELSE v

Routes == {"analyze", "preview", "write"}

\* min_periods=6 in the SegmentationConfig of write_xyz_segments
route_min_periods == 6
\* batch_size=request.batch_size or 5000
batch_size_default == 5000

\* what the data source holds: rows with a positive quantity (the fetch
\* filters ACTUALSQTY gt 0) and a period
source_rows(key, n) ==
    [i \in 1..n |-> [PRDID |-> key, ACTUALSQTY |-> i,
                     PERIODID3_TSTAMP |-> "2024-01-01T00:00:00"]]
SourceFrames ==
    { <<>>,
      source_rows("P1", 2),
      source_rows("P1", route_min_periods),
      source_rows("P1", route_min_periods) \o source_rows("P2", 1),
      source_rows("P1", route_min_periods) \o source_rows("P2", route_min_periods) }

\* the bodies of the model: a SegmentationConfig for analyze and preview, an
\* XYZWriteRequest (groupby_attributes = ['PRDID']) for write-segments;
\* "" and NoneInt stand for a field that is not given
Requests(r) ==
    IF r = "write"
    THEN [x_threshold : ThresholdValues, y_threshold : ThresholdValues,
          write_mode : Modes, primary_key : {"", "LOCID"},
          batch_size : {NoneInt, 1}]
    ELSE [x_threshold : ThresholdValues, y_threshold : ThresholdValues]

RouteInit ==
    /\ route \in Routes
    /\ request \in Requests(route)
    /\ rpc = "received"
    /\ fetch_calls = 0
    /\ http_status = 0
    /\ df \in SourceFrames
    /\ config = <<>>
    /\ analysis = <<>>

\* FastAPI builds the body model before the handler runs; XYZWriteRequest puts
\* no constraint on the thresholds
ValidateBody ==
    /\ rpc = "received"
    /\ IF route = "write" \/ segmentation_config_valid(request.x_threshold, request.y_threshold)
       THEN rpc' = "handler" /\ http_status' = http_status
       ELSE rpc' = "responded" /\ http_status' = 422
    /\ UNCHANGED <<route, request, fetch_calls>>
    /\ UNCHANGED <<writeVars, classifyVars, batchVars, engineVars, payloadVars, configVars, clientVars>>

\* analyze (line 212) and preview (line 131) first log config.primary_key,
\* which SegmentationConfig does not declare: AttributeError, outside the try
AnalysisHandlerEntry ==
    /\ rpc = "handler" /\ route \in {"analyze", "preview"}
    /\ rpc' = "responded"
    /\ http_status' = 500
    /\ UNCHANGED <<route, request, fetch_calls>>
    /\ UNCHANGED <<writeVars, classifyVars, batchVars, engineVars, payloadVars, configVars, clientVars>>

\* write_xyz_segments, lines 96-103: sap_service.fetch_data is the first step
WriteFetch ==
    /\ rpc = "handler" /\ route = "write"
    /\ fetch_calls' = fetch_calls + 1
    /\ \E outcome \in {IF df = <<>> THEN "empty" ELSE "rows", "error"} :
          CASE outcome = "rows" -> rpc' = "config" /\ http_status' = http_status
            [] outcome = "empty" -> rpc' = "responded" /\ http_status' = 404
            [] OTHER -> rpc' = "responded" /\ http_status' = 500
    /\ UNCHANGED <<route, request>>
    /\ UNCHANGED <<writeVars, classifyVars, batchVars, engineVars, payloadVars, configVars, clientVars>>

x_thresh == or_default(request.x_threshold, default_x_threshold)
y_thresh == or_default(request.y_threshold, default_y_threshold)

\* lines 111-118: the SegmentationConfig is built after the fetch; its
\* ValidationError is caught at line 207 and answered with 500
WriteBuildConfig ==
    /\ rpc = "config"
    /\ IF segmentation_config_valid(x_thresh, y_thresh)
       THEN /\ rpc' = "analysis" /\ http_status' = http_status
            /\ config' = segmentation_config(<<"PRDID">>, x_thresh, y_thresh,
                                             route_min_periods, FALSE,
                                             outlier_threshold_x2_default)
       ELSE /\ rpc' = "responded" /\ http_status' = 500
            /\ config' = config
    /\ UNCHANGED <<route, request, fetch_calls, df, analysis>>
    /\ UNCHANGED <<writeVars, classifyVars, batchVars, payloadVars, configVars, clientVars>>

\* lines 132-144: write_df holds the grouping dimensions, XYZ_Segment and the
\* first period of each group
write_df(result_df, rows) ==
    [i \in 1..Len(result_df) |->
        [PRDID |-> result_df[i].PRDID,
         XYZ_Segment |-> result_df[i].XYZ_Segment,
         PERIODID3_TSTAMP |-> group_rows(rows, result_df[i].PRDID)[1].PERIODID3_TSTAMP]]

\* faulty variant: an empty result is written like any other
no_segments_never(result_df) == FALSE

\* line 124: result_df.empty
no_segments(result_df) == result_df = <<>>

\* lines 121-178: the engine runs; no segments: 422 (line 124); otherwise the
\* write service is called in the mode of the request
WriteAnalyze ==
    /\ rpc = "analysis"
    /\ analysis' = calculate_dynamic_xyz_segmentation(df, config)
    /\ IF analysis'.status = "raised" \/ no_segments(analysis'.result_df)
       THEN /\ rpc' = "responded"
            /\ http_status' = (IF analysis'.status = "raised" THEN 500 ELSE 422)
            /\ UNCHANGED writeVars
       ELSE /\ rpc' = "write"
            /\ http_status' = http_status
            /\ mode' = request.write_mode
            /\ columns' = <<"PRDID", "XYZ_Segment", "PERIODID3_TSTAMP">>
            /\ segment_data' = write_df(analysis'.result_df, df)
            /\ primary_key' = (IF request.primary_key = "" THEN "PRDID"
                                ELSE request.primary_key)
            /\ version_id' = "" /\ scenario_id' = ""
            /\ enable_null_handling' \in BOOLEAN
            /\ batch_size' = (IF request.write_mode = "simple" THEN NoneInt
                               ELSE IF request.batch_size = NoneInt THEN batch_size_default
                               ELSE request.batch_size)
            /\ req_max_workers' = NoneInt
            /\ max_workers' = NoneInt
            /\ pc' = "request"
            /\ transaction_id' = ""
            /\ batches' = <<>> /\ idx' = 0 /\ batch_state' = <<>>
            /\ collected' = {} /\ results' = <<>> /\ failed_batches' = <<>>
            /\ sends' = <<>> /\ commits' = <<>> /\ exports' = <<>> /\ initiates' = <<>>
            /\ session' = "none"
            /\ error' = NoError /\ result' = NoResult
    /\ UNCHANGED <<route, request, fetch_calls, df, config>>
    /\ UNCHANGED <<classifyVars, batchVars, payloadVars, configVars, clientVars>>

\* lines 180-209: the write returned (200) or raised (500)
WriteRespond ==
    /\ rpc = "write" /\ pc \in {"done", "failed", "rejected"}
    /\ rpc' = "responded"
    /\ http_status' = (IF pc = "done" THEN 200 ELSE 500)
    /\ UNCHANGED <<route, request, fetch_calls>>
    /\ UNCHANGED <<writeVars, classifyVars, batchVars, engineVars, payloadVars, configVars, clientVars>>

InitRoute == RouteInit /\ IdleWrite /\ IdleClassify /\ IdleBatches /\ IdlePayload /\ IdleOthers
NextRoute ==
    \/ ValidateBody \/ AnalysisHandlerEntry
    \/ WriteFetch \/ WriteBuildConfig \/ WriteAnalyze \/ WriteRespond
    \/ Next
SpecRoute == InitRoute /\ [][NextRoute]_vars

(***************************************************************************)
(* Properties of the write dispatcher (checked under Spec).               *)
(***************************************************************************)
Terminal == pc \in {"done", "failed"}
FailedBatches == {k \in DOMAIN batch_state : batch_state[k] = "failed"}
AllBatchesAcked ==
    /\ DOMAIN batch_state = 1..Len(batches)
    /\ \A k \in DOMAIN batch_state : batch_state[k] = "ok"
    /\ \A k \in DOMAIN batch_state : \E i \in DOMAIN sends : sends[i].batch = k
CommitReturned == commits # <<>> /\ commits[Len(commits)].ok

\* C1: in batched and parallel modes the commit call is issued only once every
\* batch of the transaction has been sent and acknowledged successfully (none
\* queued, running, in flight or failed), and the result-verification call only
\* once the commit call has returned successfully.
C1_CommitBarrier ==
    mode \in {"batched", "parallel"} =>
        /\ commits # <<>> => AllBatchesAcked
        /\ exports # <<>> => CommitReturned /\ AllBatchesAcked

C1_Witness ==
    /\ mode = "parallel" /\ Len(batches) = 3 /\ max_workers = 2
    /\ commits # <<>> /\ exports # <<>>
    /\ results = <<2, 1, 3>>

\* C3: in batched mode, once the send of chunk k has failed, no chunk after k
\* has been sent, no commit call and no result-verification call has been
\* issued, the operation has failed and the raised error names index k.
C3_BatchedAbort ==
    mode = "batched" =>
        \A k \in FailedBatches :
            /\ \A i \in DOMAIN sends : sends[i].batch <= k
            /\ commits = <<>> /\ exports = <<>>
            /\ pc = "failed"
            /\ error.idx = k
            /\ error.text[1] = "Failed to send batch "

C3_Witness ==
    /\ mode = "batched" /\ Len(batches) = 3
    /\ batch_state = <<"ok", "failed", "unsubmitted">>
    /\ pc = "failed"

\* C4: in parallel mode, whatever the order in which the workers finish, a
\* commit call is issued only when no batch has failed; and when the operation
\* has ended with at least one failed batch, it has failed without any commit
\* call and its error lists exactly the failed indices, each once.
C4_ParallelFailure ==
    mode = "parallel" =>
        /\ commits # <<>> => FailedBatches = {}
        /\ (Terminal /\ FailedBatches # {}) =>
              /\ pc = "failed"
              /\ commits = <<>>
              /\ Range(error.failed) = FailedBatches
              /\ Len(error.failed) = Cardinality(FailedBatches)

C4_Witness ==
    /\ mode = "parallel" /\ pc = "failed"
    /\ batch_state = <<"failed", "ok", "failed">>
    /\ error.failed = <<3, 1>>

\* C6 (as claimed): a simple write that has ended has issued exactly one send
\* request, carrying all the records with DoCommit true, and no commit call.
CarriesAll(payload, rows) ==
    /\ Len(payload.Nav) = Len(rows)
    /\ \A j \in DOMAIN rows : payload.Nav[j][1] = <<primary_key, rows[j][primary_key]>>

C6_Original ==
    (mode = "simple" /\ Terminal) =>
        /\ Len(sends) = 1
        /\ sends[1].payload.DoCommit
        /\ CarriesAll(sends[1].payload, segment_data)
        /\ commits = <<>>

\* C6 (amended): a simple write never issues a commit call and issues at most
\* one send request; every send request carries all the records with DoCommit
\* true; a write that has ended has issued exactly one send request when the
\* payload was built and the session handshake succeeded (whether that send
\* succeeded or failed), and none otherwise.
SimpleFailedBeforeSend ==
    /\ pc = "failed"
    /\ error.text[1] \in {"Primary key ", "Failed to obtain CSRF token: "}

C6_SimpleSingleSend ==
    mode = "simple" =>
        /\ commits = <<>>
        /\ \A i \in DOMAIN sends :
              sends[i].payload.DoCommit /\ CarriesAll(sends[i].payload, segment_data)
        /\ Terminal => Len(sends) = (IF SimpleFailedBeforeSend THEN 0 ELSE 1)
        /\ ~Terminal => sends = <<>>

C6_Witness ==
    /\ mode = "simple" /\ pc = "failed" /\ Len(segment_data) = 3
    /\ Len(sends) = 1
    /\ error.text[1] = "Failed to write data to SAP: "

\* C7: in batched and parallel modes no batch request carries DoCommit, and at
\* most one commit call is issued over the whole run.
C7_NoCommitFlagOnBatches ==
    mode \in {"batched", "parallel"} =>
        /\ \A i \in DOMAIN sends : ~sends[i].payload.DoCommit
        /\ Len(commits) <= 1

C7_Witness ==
    /\ mode = "batched" /\ Len(sends) = 3 /\ Len(commits) = 1 /\ pc = "done"

\* C8: in parallel mode the number of batch sends in flight never exceeds
\* max_workers, which is the request's value, 4 when the request gives none,
\* and between 1 and 10; a request outside 1..10 is rejected and sends nothing.
C8_BoundedWorkers ==
    mode = "parallel" =>
        /\ pc = "request" => sends = <<>>
        /\ pc = "rejected" => sends = <<>> /\ ~request_max_workers_valid(req_max_workers)
        /\ pc \notin {"request", "rejected"} =>
              /\ Cardinality(in_flight) <= max_workers
              /\ max_workers >= 1 /\ max_workers <= 10
              /\ max_workers = (IF req_max_workers = NoneInt THEN 4 ELSE req_max_workers)

C8_Witness ==
    /\ mode = "parallel" /\ max_workers = 2 /\ Len(batches) = 3
    /\ Cardinality(in_flight) = 2
    /\ batch_state[3] = "queued"

\* C10: every error a write operation ends with after its transaction id was
\* generated or obtained carries that transaction id.
C10_ErrorCarriesTransactionId ==
    (pc = "failed" /\ transaction_id # "") => transaction_id \in Range(error.text)

(***************************************************************************)
(* Properties of the classifiers (checked under SpecClassify).            *)
(***************************************************************************)
Bands(r, v, x, y) ==
    /\ r = "X" <=> v <= x
    /\ r = "Y" <=> (x < v /\ v <= y)
    /\ r = "Z" <=> v > y

\* C2: for every CV value v and every threshold pair x < y, each classifier
\* returns X exactly when v <= x, Y exactly when x < v <= y and Z exactly when
\* v > y (so v = x gives X and v = y gives Y).
C2_ClassifierBands ==
    (segment # <<>> /\ x_threshold < y_threshold) =>
        /\ Bands(segment.dynamic, cv, x_threshold, y_threshold)
        /\ Bands(segment.basic, cv, x_threshold, y_threshold)
        /\ Bands(segment.service, cv, x_threshold, y_threshold)

C2_Witness ==
    /\ segment # <<>> /\ x_threshold = 1 /\ y_threshold = 3 /\ cv = 3
    /\ segment = [dynamic |-> "Y", basic |-> "Y", service |-> "Y"]

(***************************************************************************)
(* Properties of the batch splitters (checked under SpecBatches).         *)
(***************************************************************************)
CeilDiv(n, b) == (n + b - 1) \div b

RECURSIVE Concat(_)
Concat(ss) == IF ss = <<>> THEN <<>> ELSE Head(ss) \o Concat(Tail(ss))

\* C5: for a record list of length N and a batch size B >= 1 the split has
\* exactly ceil(N/B) batches, each of at most B records, and the batches
\* concatenated in index order are the record list.
C5_BatchSplit ==
    \A i \in DOMAIN split_out :
        LET out == split_out[i].batches
        IN  /\ Len(out) = CeilDiv(Len(data), split_size)
            /\ \A k \in DOMAIN out : Len(out[k]) <= split_size
            /\ Concat(out) = data

C5_Witness ==
    /\ split_out # <<>> /\ data = <<"a", "b", "b", "a">> /\ split_size = 3
    /\ split_out[1].batches = << <<"a", "b", "b">>, <<"a">> >>

(***************************************************************************)
(* Properties of the entry points (checked under SpecRoute).              *)
(***************************************************************************)
\* the thresholds the analysis of the request would run with
effective_x == IF route = "write" THEN x_thresh ELSE config_x(request.x_threshold)
effective_y == IF route = "write" THEN y_thresh ELSE config_y(request.y_threshold)

\* C9: a request whose thresholds violate y_threshold > x_threshold is
\* rejected before the data source is fetched: no fetch call occurs for it, on
\* analyze, preview and write-segments alike.
C9_RejectedBeforeFetch ==
    ~(effective_y > effective_x) => fetch_calls = 0

(***************************************************************************)
(* Properties of the analysis engine (checked under SpecAnalyze).          *)
(***************************************************************************)
Returned == analysis # <<>> /\ analysis.status = "returned"
\* the observations the statistics are computed on
AnalyzedRows ==
    IF config.remove_outliers THEN remove_outliers(df, config.outlier_threshold_x2) ELSE df
ResultRowsOf(key) == {i \in DOMAIN analysis.result_df : analysis.result_df[i].PRDID = key}
KeysOf(rows) == {rows[i].PRDID : i \in DOMAIN rows} \ {NA}
AllZero(g) == g # <<>> /\ \A i \in DOMAIN g : g[i].ACTUALSQTY = 0

\* C11: a group whose observations are all zero (mean exactly 0) and which has
\* at least min_periods observations is classified Z, for every valid
\* threshold pair.
C11_ZeroMeanIsZ ==
    Returned =>
        \A key \in KeysOf(df) :
            LET g == group_rows(df, key)
            IN  (AllZero(g) /\ Len(g) >= config.min_periods) =>
                    \E i \in ResultRowsOf(key) : analysis.result_df[i].XYZ_Segment = "Z"

\* C12: a group of exactly one observation appears in the analysis result
\* classified X with CV = 0, whatever its value, the thresholds and
\* min_periods.
C12_SingletonIsX ==
    Returned =>
        \A key \in KeysOf(df) :
            Len(group_rows(df, key)) = 1 =>
                \E i \in ResultRowsOf(key) :
                    /\ analysis.result_df[i].XYZ_Segment = "X"
                    /\ analysis.result_df[i].CV = cv_zero

\* C13: analyze on an empty observation set raises no error and returns an
\* empty result set with a data-quality report whose total_records_analyzed
\* is present and equal to 0.
C13_EmptyAnalyze ==
    (analysis # <<>> /\ df = <<>>) =>
        /\ analysis.status = "returned"
        /\ analysis.result_df = <<>>
        /\ "total_records_analyzed" \in DOMAIN analysis.data_quality
        /\ analysis.data_quality["total_records_analyzed"] = 0

\* C14: every group with fewer than min_periods observations is absent from
\* the result and counted in records_excluded, every group with at least
\* min_periods observations appears exactly once, and records_excluded plus
\* the number of result rows is the number of distinct group keys of the
\* input after outlier removal.
C14_MinPeriodsFilter ==
    (Returned /\ df # <<>>) =>
        LET below == {k \in KeysOf(AnalyzedRows) :
                         Len(group_rows(AnalyzedRows, k)) < config.min_periods}
            enough == KeysOf(AnalyzedRows) \ below
        IN  /\ \A k \in below : ResultRowsOf(k) = {}
            /\ analysis.data_quality.records_excluded = Cardinality(below)
            /\ \A k \in enough : Cardinality(ResultRowsOf(k)) = 1
            /\ \A i \in DOMAIN analysis.result_df : analysis.result_df[i].PRDID \in enough
            /\ analysis.data_quality.records_excluded + Len(analysis.result_df)
                   = Cardinality(KeysOf(AnalyzedRows))

C14_Witness ==
    /\ Returned
    /\ config.min_periods = min_periods_ge
    /\ Len(group_rows(AnalyzedRows, "P1")) = min_periods_ge
    /\ Len(group_rows(AnalyzedRows, "P2")) = min_periods_ge - 1
    /\ analysis.data_quality.records_excluded = 1
    /\ Len(analysis.result_df) = 1
    /\ analysis.result_df[1].PRDID = "P1"

(***************************************************************************)
(* The payload builder on its own: SAPWriteService._prepare_payload over   *)
(* frames with several dimensions, a period column and null cells.         *)
(***************************************************************************)
MaxPayloadRows == 2

\* the column lists of the frames of the model
FrameColumns ==
    { <<"PRDID", "XYZ_Segment">>,
      <<"PRDID", "CV", "XYZ_Segment">>,
      <<"PRDID", "LOCID", "XYZ_Segment">>,
      <<"LOCID", "PRDID", "XYZ_Segment", "PERIODID3_TSTAMP">> }

\* the values a cell of each column takes
CellValues(c) ==
    CASE c = "PRDID" -> {"P1", NA}
      [] c = "LOCID" -> {"L1", NA}
      [] c = "XYZ_Segment" -> {"X", "Z"}
      [] c = "PERIODID3_TSTAMP" -> {"2024-01-01", "2024-02-01T08:30:00", NA}
      [] OTHER -> {"0.0"}

FrameRows(cols) ==
    {r \in [Range(cols) -> UNION {CellValues(c) : c \in Range(cols)}] :
        \A c \in Range(cols) : r[c] \in CellValues(c)}

PayloadInit ==
    /\ \E cols \in FrameColumns :
          payload_args \in [columns : {cols},
                            rows : SeqsUpTo(FrameRows(cols), MaxPayloadRows),
                            transaction_id : {"TXA"},
                            primary_key : {"PRDID", "LOCID"},
                            period_field : {period_field_default},
                            do_commit : BOOLEAN,
                            enable_null_handling : BOOLEAN]
    /\ payload_out = <<>>

BuildPayload ==
    /\ payload_out = <<>>
    /\ payload_out' =
          IF payload_raises(payload_args.columns, payload_args.primary_key)
          THEN [status |-> "raised", payload |-> <<>>]
          ELSE [status |-> "returned",
                payload |-> prepare_payload(payload_args.columns, payload_args.rows,
                                            payload_args.transaction_id,
                                            payload_args.primary_key, "", "",
                                            payload_args.period_field,
                                            payload_args.do_commit,
                                            payload_args.enable_null_handling)]
    /\ UNCHANGED payload_args
    /\ UNCHANGED <<writeVars, classifyVars, batchVars, routeVars, engineVars, configVars, clientVars>>

InitPayload ==
    PayloadInit /\ IdleWrite /\ IdleClassify /\ IdleBatches /\ IdleRoute /\ IdleEngine /\ IdleOthers
NextPayload == BuildPayload
SpecPayload == InitPayload /\ [][NextPayload]_vars

(***************************************************************************)
(* Properties of the payload builder (checked under SpecPayload).          *)
(***************************************************************************)
Built == payload_out # <<>> /\ payload_out.status = "returned"
FieldNames(rec) == [i \in 1..Len(rec) |-> rec[i][1]]
HasField(rec, f) == \E i \in DOMAIN rec : rec[i][1] = f
FieldValue(rec, f) == rec[CHOOSE i \in DOMAIN rec : rec[i][1] = f][2]
NullPrimaryKey(args) ==
    \E i \in DOMAIN args.rows :
        ~InSeq(args.primary_key, args.columns) \/ args.rows[i][args.primary_key] = NA

\* C15: the payload builder rejects, with an error, any record whose primary
\* key value is null or absent; no payload it returns holds a record without
\* the primary key field.
C15_NullPrimaryKeyRejected ==
    payload_out # <<>> =>
        /\ NullPrimaryKey(payload_args) => payload_out.status = "raised"
        /\ payload_out.status = "returned" =>
              \A i \in DOMAIN payload_out.payload.Nav :
                  HasField(payload_out.payload.Nav[i], payload_args.primary_key)

\* C16: in every payload the builder produces, the field names of each
\* record, in order, are those of the AggregationLevelFieldsString
\* descriptor: primary key, other dimensions in order, key figure, the
\* _isNull flag iff null handling is enabled, period field.
C16_RecordMatchesDescriptor ==
    Built =>
        /\ payload_out.payload.AggregationLevelFieldsString =
              join(",", <<payload_args.primary_key>>
                        \o SelectSeq(dimension_cols(payload_args.columns, payload_args.period_field),
                                     LAMBDA d : d # payload_args.primary_key)
                        \o <<xyz_key_figure>>
                        \o (IF payload_args.enable_null_handling
                            THEN <<xyz_key_figure \o "_isNull">> ELSE <<>>)
                        \o <<payload_args.period_field>>)
        /\ \A i \in DOMAIN payload_out.payload.Nav :
              join(",", FieldNames(payload_out.payload.Nav[i]))
                  = payload_out.payload.AggregationLevelFieldsString

\* Reading a record against the descriptor: the descriptor string is split at
\* the commas into field names (the list whose join is the string), and each
\* name is looked up in the record.
DescriptorFields ==
    {"PRDID", "LOCID", xyz_key_figure, xyz_key_figure \o "_isNull", period_field_default}
FieldLists ==
    {l \in SeqsUpTo(DescriptorFields, Cardinality(DescriptorFields)) :
        \A i, j \in DOMAIN l : l[i] = l[j] => i = j}
split_descriptor(d) == CHOOSE l \in FieldLists : join(",", l) = d

NonNullInputs(args) ==
    /\ InSeq(args.period_field, args.columns)
    /\ \A i \in DOMAIN args.rows : \A c \in Range(args.columns) : args.rows[i][c] # NA

\* record i read against the descriptor gives the dimension values and the
\* segment letter of row i, and the period value expected
Recovers(i, expected_period) ==
    LET rec == payload_out.payload.Nav[i]
        row == payload_args.rows[i]
        names == split_descriptor(payload_out.payload.AggregationLevelFieldsString)
        dims == Range(dimension_cols(payload_args.columns, payload_args.period_field))
    IN  /\ \A f \in Range(names) : f # xyz_key_figure \o "_isNull" => HasField(rec, f)
        /\ \A d \in dims : InSeq(d, names) /\ FieldValue(rec, d) = row[d]
        /\ InSeq(xyz_key_figure, names)
        /\ FieldValue(rec, xyz_key_figure) = row["XYZ_Segment"]
        /\ InSeq(payload_args.period_field, names)
        /\ FieldValue(rec, payload_args.period_field) = expected_period

\* C17 (as stated): building the payload from rows with non-null dimension
\* and period values and reading each record against the descriptor recovers
\* exactly the dimension values, the segment letter and the period value.
C17_Original ==
    (Built /\ NonNullInputs(payload_args)) =>
        \A i \in DOMAIN payload_args.rows :
            Recovers(i, payload_args.rows[i][payload_args.period_field])

\* C17 (amended): the dimension values and the segment letter are recovered
\* exactly; the period value is recovered exactly when it has a time part,
\* and as the value followed by T00:00:00 when it is a bare date.
C17_RoundTrip ==
    (Built /\ NonNullInputs(payload_args)) =>
        \A i \in DOMAIN payload_args.rows :
            LET p == payload_args.rows[i][payload_args.period_field]
            IN  Recovers(i, IF HasT(p) THEN p ELSE p \o "T00:00:00")

C17_Witness ==
    /\ Built /\ NonNullInputs(payload_args)
    /\ payload_args.primary_key = "PRDID"
    /\ Len(payload_args.rows) = 2
    /\ payload_args.rows[1][payload_args.period_field] = "2024-01-01"
    /\ payload_args.rows[2][payload_args.period_field] = "2024-02-01T08:30:00"
    /\ FieldValue(payload_out.payload.Nav[1], payload_args.period_field) = "2024-01-01T00:00:00"
    /\ FieldValue(payload_out.payload.Nav[1], "LOCID") = "L1"

(***************************************************************************)
(* Further properties of the write dispatcher (checked under Spec).        *)
(***************************************************************************)
\* C18: within one write operation every batch request carries the same
\* transaction id and the same field descriptor string, and the commit call
\* and the result-verification call use that transaction id, which is
\* generated by the client in simple and batched modes and obtained from the
\* initiation call in parallel mode.
C18_OneTransaction ==
    /\ \A i \in DOMAIN sends :
          /\ transaction_id # ""
          /\ sends[i].payload.Transactionid = transaction_id
          /\ sends[i].payload.AggregationLevelFieldsString
                 = sends[1].payload.AggregationLevelFieldsString
    /\ \A i \in DOMAIN commits : commits[i].Transactionid = transaction_id
    /\ \A i \in DOMAIN exports : exports[i].Transactionid = transaction_id
    /\ mode \in {"simple", "batched"} => initiates = <<>>
    /\ (mode = "parallel" /\ transaction_id # "") => Len(initiates) = 1

C18_Witness ==
    /\ mode = "parallel" /\ pc = "done"
    /\ transaction_id = "TXB"
    /\ Len(batches) = 2 /\ Len(sends) = 2
    /\ sends[1].batch = 2
    /\ Len(commits) = 1 /\ Len(exports) = 1

\* C20: the dispatcher never retries: each batch of a transaction is sent at
\* most once and the commit call is issued at most once, also after a
\* failure.
C20_NoRetry ==
    /\ \A i, j \in DOMAIN sends : sends[i].batch = sends[j].batch => i = j
    /\ Len(sends) <= IF mode = "simple" THEN 1 ELSE Len(batches)
    /\ Len(commits) <= 1
    /\ Len(initiates) <= 1

C20_Witness ==
    /\ mode = "batched" /\ pc = "failed"
    /\ Len(batches) = 2 /\ Len(sends) = 2
    /\ batch_state[2] = "failed"
    /\ commits = <<>>

(***************************************************************************)
(* Further properties of the entry points (checked under SpecRoute).       *)
(***************************************************************************)
NoSinkCall ==
    /\ session \in {"", "none"}
    /\ initiates = <<>>
    /\ sends = <<>>
    /\ commits = <<>>
    /\ exports = <<>>

\* C19: on the write-segments path, when the analysis yields no surviving
\* group the operation fails before any call to the sink: no session
\* handshake, no initiation, no batch send and no commit is issued.
C19_EmptyResultAborts ==
    (route = "write" /\ analysis # <<>> /\ analysis.result_df = <<>>) =>
        /\ NoSinkCall
        /\ rpc = "responded"
        /\ http_status \in {422, 500}

C19_Witness ==
    /\ route = "write" /\ rpc = "responded" /\ http_status = 422
    /\ fetch_calls = 1
    /\ df = source_rows("P1", 2)
    /\ analysis # <<>>
    /\ analysis.result_df = <<>>
    /\ analysis.data_quality.records_excluded = 1
    /\ NoSinkCall

(***************************************************************************)
(* Construction of a SegmentationConfig from keyword arguments.            *)
(***************************************************************************)
MaxAttrs == 3

\* groupby_attributes: Field(..., min_items=1)
groupby_min_items == 1

\* validate_attributes: 'PRDID' must be in the list
validate_attributes(v) == InSeq("PRDID", v)

\* The model declares no primary_key field and does not forbid extra
\* arguments: a primary_key keyword is ignored.
construct_segmentation_config(args) ==
    IF /\ Len(args.groupby_attributes) >= groupby_min_items
       /\ validate_attributes(args.groupby_attributes)
       /\ segmentation_config_valid(args.x_threshold, args.y_threshold)
    THEN "accepted" ELSE "rejected"

ConfigInit ==
    /\ config_args \in [primary_key : {"PRDID", "LOCID"},
                        groupby_attributes : SeqsUpTo({"PRDID", "LOCID"}, MaxAttrs),
                        x_threshold : {NoneInt, 10, 25},
                        y_threshold : {NoneInt, 10, 25}]
    /\ config_out = ""

ConstructConfig ==
    /\ config_out = ""
    /\ config_out' = construct_segmentation_config(config_args)
    /\ UNCHANGED config_args
    /\ UNCHANGED <<writeVars, classifyVars, batchVars, routeVars, engineVars, payloadVars, clientVars>>

InitConfig ==
    ConfigInit /\ IdleWrite /\ IdleClassify /\ IdleBatches /\ IdleRoute /\ IdleEngine
    /\ IdlePayload /\ IdleClient
NextConfig == ConstructConfig
SpecConfig == InitConfig /\ [][NextConfig]_vars

(***************************************************************************)
(* Properties of the config construction (checked under SpecConfig).       *)
(***************************************************************************)
HasDuplicate(v) == \E i, j \in DOMAIN v : i # j /\ v[i] = v[j]

\* C21: a segmentation config is rejected at construction when its
\* primary_key is not among groupby_attributes or groupby_attributes holds a
\* duplicate; every accepted config has a non-empty, duplicate-free
\* groupby_attributes that includes its primary_key, for any primary key.
C21_ConfigAttributes ==
    config_out # "" =>
        LET attrs == config_args.groupby_attributes
            bad == ~InSeq(config_args.primary_key, attrs) \/ HasDuplicate(attrs)
        IN  /\ bad => config_out = "rejected"
            /\ config_out = "accepted" =>
                  attrs # <<>> /\ ~HasDuplicate(attrs) /\ InSeq(config_args.primary_key, attrs)

(***************************************************************************)
(* Further properties of the analysis engine (checked under SpecAnalyze).  *)
(***************************************************************************)
\* C22: every group that survives the min_periods filter receives exactly one
\* of the labels X, Y, Z; the label Unknown never occurs, also for groups of
\* undefined std, zero mean or negative mean.
C22_NoUnknown ==
    Returned =>
        /\ \A i \in DOMAIN analysis.result_df :
              analysis.result_df[i].XYZ_Segment \in {"X", "Y", "Z"}
        /\ \A k \in KeysOf(AnalyzedRows) :
              Len(group_rows(AnalyzedRows, k)) >= config.min_periods =>
                  Cardinality(ResultRowsOf(k)) = 1

C22_Witness ==
    /\ Returned
    /\ Len(analysis.result_df) = 2
    /\ group_sum(group_rows(AnalyzedRows, "P1")) < 0
    /\ analysis.result_df[1].XYZ_Segment = "X"
    /\ group_sum(group_rows(AnalyzedRows, "P2")) = 0
    /\ AllZero(group_rows(AnalyzedRows, "P2"))
    /\ analysis.result_df[2].CV = cv_zero
    /\ analysis.result_df[2].XYZ_Segment = "X"

\* C23: analyze on a non-empty observation set that lacks one of the
\* configured groupby_attributes fails with a validation error naming the
\* missing attributes, before outlier removal, grouping or classification
\* run, and returns no partial result.
C23_MissingAttributes ==
    LET lacking == {a \in Range(config.groupby_attributes) : ~InSeq(a, df_columns)}
    IN  (analysis # <<>> /\ df # <<>> /\ lacking # {}) =>
            /\ analysis.status = "raised"
            /\ Range(analysis.missing) = lacking
            /\ analysis.steps = <<"validate">>
            /\ analysis.result_df = <<>>
            /\ analysis.data_quality = EmptyDict

C23_Witness ==
    /\ analysis # <<>> /\ df # <<>>
    /\ config.remove_outliers
    /\ config.groupby_attributes = <<"CUSTID", "PRDID", "LOCID">>
    /\ analysis.status = "raised"
    /\ analysis.missing = <<"CUSTID", "LOCID">>

\* C24: with outlier removal enabled, every group of fewer than 3
\* observations passes through the removal step unmodified, and the output of
\* the step is a sub-collection of its input.
C24_SmallGroupsExempt ==
    (Returned /\ df # <<>> /\ config.remove_outliers) =>
        /\ \A k \in KeysOf(df) :
              Len(group_rows(df, k)) < 3 =>
                  group_rows(AnalyzedRows, k) = group_rows(df, k)
        /\ \A k \in KeysOf(df) : \A q \in Range(Quantities) :
              Len(SelectSeq(group_rows(AnalyzedRows, k), LAMBDA r : r.ACTUALSQTY = q))
                  <= Len(SelectSeq(group_rows(df, k), LAMBDA r : r.ACTUALSQTY = q))

\* C25: total_records_analyzed is the number of observations passed to
\* analyze, counted before outlier removal and before the min_periods filter,
\* whether or not remove_outliers is enabled.
C25_TotalRecordsIsInput ==
    (Returned /\ df # <<>>) =>
        analysis.data_quality.total_records_analyzed = Len(df)


(***************************************************************************)
(* Version / scenario context, cancellation, commit and verification       *)
(* failures of the write dispatcher (checked under Spec).                  *)
(***************************************************************************)
\* C26: in every write mode every outgoing batch payload carries the
\* request's version_id as VersionID and its scenario_id as ScenarioID, and
\* carries neither field when the request supplies none ("" stands for the
\* absent value and the absent key).
C26_ContextOnEveryPayload ==
    \A i \in DOMAIN sends :
        /\ sends[i].payload.VersionID = version_id
        /\ sends[i].payload.ScenarioID = scenario_id

\* the success-or-failure decision of write_segments_parallel has been taken
ParallelDecided ==
    \/ pc \in {"commit", "export", "done"}
    \/ pc = "failed" /\ error.text[1] \in {"Some batches failed: ", "Failed to commit transaction: "}

SendsOf(k) == {i \in DOMAIN sends : sends[i].batch = k}

\* C27: in parallel mode there is no mid-flight cancellation: whenever the
\* success-or-failure decision has been taken, every batch was submitted and
\* its send task has run to completion exactly once (one request, or none
\* when the payload could not be built), also the batches whose turn came
\* after another batch had failed; no batch is sent twice at any time.
C27_NoCancellation ==
    mode = "parallel" =>
        /\ \A k \in DOMAIN batch_state : Cardinality(SendsOf(k)) <= 1
        /\ ParallelDecided =>
              /\ DOMAIN batch_state = 1..Len(batches)
              /\ Len(batches) = Len(split_batches(segment_data, batch_size))
              /\ \A k \in DOMAIN batch_state :
                    /\ batch_state[k] \in {"ok", "failed"}
                    /\ k \in collected
                    /\ Cardinality(SendsOf(k))
                          = (IF payload_raises(columns, primary_key) THEN 0 ELSE 1)

\* one worker: batch 1 has failed before batches 2 and 3 were started, and
\* both were still sent
C27_Witness ==
    /\ mode = "parallel" /\ max_workers = 1 /\ pc = "failed"
    /\ batch_state = <<"failed", "ok", "ok">>
    /\ error.failed = <<1>>
    /\ Len(sends) = 3

\* C28: in batched and parallel modes a failed commit call fails the whole
\* operation and no result-verification call is issued; a failed
\* result-verification call after a successful commit does not fail the
\* operation, which returns status success with an export result of status
\* unknown.
C28_CommitAndExportFailures ==
    mode \in {"batched", "parallel"} =>
        /\ (commits # <<>> /\ ~commits[Len(commits)].ok) =>
              /\ pc = "failed"
              /\ error.text[1] = "Failed to commit transaction: "
              /\ exports = <<>>
              /\ result = NoResult
        /\ (exports # <<>> /\ ~exports[Len(exports)].ok) =>
              /\ CommitReturned
              /\ pc = "done"
              /\ error = NoError
              /\ result.status = "success"
              /\ result.export_status = "unknown"

C28_Witness ==
    /\ mode = "batched" /\ pc = "done"
    /\ Len(sends) = 2
    /\ commits # <<>> /\ commits[1].ok
    /\ exports # <<>> /\ ~exports[1].ok
    /\ result.export_status = "unknown"

(***************************************************************************)
(* Sessions (checked under SpecFair: every call has a timeout and every    *)
(* submitted task is run by the executor, so an enabled step is taken).    *)
(***************************************************************************)
SpecFair == Spec /\ WF_vars(Next)

\* _get_csrf_token has raised: the caller never received a session
HandshakeFailed == pc = "failed" /\ error.text[1] = "Failed to obtain CSRF token: "
MainSessionOpen == session = "open" /\ ~HandshakeFailed
WorkerOpen(k) == k \in DOMAIN batch_state /\ worker_session(k) = "open"
WorkerClosed(k) == k \in DOMAIN batch_state /\ worker_session(k) = "closed"

\* a request is issued on the main session / by the worker of batch k
MainRequest ==
    \/ commits' # commits \/ exports' # exports \/ initiates' # initiates
    \/ mode \in {"simple", "batched"} /\ sends' # sends
WorkerRequest(k) ==
    /\ mode = "parallel" /\ Len(sends') = Len(sends) + 1
    /\ sends'[Len(sends')].batch = k

MaxRetries == 4

Methods == {"GET", "POST", "DELETE"}
SuccessCodes == {200, 201}
ErrorCodes == {400, 404, 500, 503}
RequestErrors == {"ConnectionError", "Timeout"}

\* what one attempt met: the status code of the response, or the
\* RequestException raised without a response (status 0)
Response(status) == [status |-> status, exception |-> ""]
NoResponse(exception) == [status |-> 0, exception |-> exception]

\* 400 <= response.status_code < 500
is_client_error(status) == 400 <= status /\ status < 500
\* attempt == self.max_retries - 1
is_last_attempt == attempt = max_retries - 1

Calling == call_outcome = "calling"

ClientInit ==
    /\ method \in Methods
    /\ max_retries \in 0..MaxRetries
    /\ attempt = 0
    /\ history = <<>>
    /\ call_outcome = "calling"

\* lines 144-148: the response is returned
RequestOk ==
    /\ Calling /\ attempt < max_retries
    /\ \E status \in SuccessCodes : history' = Append(history, Response(status))
    /\ call_outcome' = "returned"
    /\ UNCHANGED <<method, max_retries, attempt>>
    /\ UNCHANGED <<writeVars, classifyVars, batchVars, routeVars, engineVars, payloadVars, configVars>>

\* lines 150-161: raise_for_status raised HTTPError
RequestHTTPError ==
    /\ Calling /\ attempt < max_retries
    /\ \E status \in ErrorCodes :
          /\ history' = Append(history, Response(status))
          /\ IF is_client_error(status) \/ is_last_attempt
             THEN call_outcome' = "raised" /\ attempt' = attempt
             ELSE call_outcome' = call_outcome /\ attempt' = attempt + 1
    /\ UNCHANGED <<method, max_retries>>
    /\ UNCHANGED <<writeVars, classifyVars, batchVars, routeVars, engineVars, payloadVars, configVars>>

\* lines 163-168: another RequestException (no response)
RequestFailed ==
    /\ Calling /\ attempt < max_retries
    /\ \E e \in RequestErrors : history' = Append(history, NoResponse(e))
    /\ IF is_last_attempt
       THEN call_outcome' = "raised" /\ attempt' = attempt
       ELSE call_outcome' = call_outcome /\ attempt' = attempt + 1
    /\ UNCHANGED <<method, max_retries>>
    /\ UNCHANGED <<writeVars, classifyVars, batchVars, routeVars, engineVars, payloadVars, configVars>>

\* line 142: range(self.max_retries) is exhausted and the function body
\* ends; the call returns None
LoopExhausted ==
    /\ Calling /\ attempt >= max_retries
    /\ call_outcome' = "returned None"
    /\ UNCHANGED <<method, max_retries, attempt, history>>
    /\ UNCHANGED <<writeVars, classifyVars, batchVars, routeVars, engineVars, payloadVars, configVars>>

InitClient == ClientInit /\ IdleWrite /\ IdleClassify /\ IdleBatches /\ IdleRoute /\ IdleEngine /\ IdlePayload /\ IdleConfig
NextClient == RequestOk \/ RequestHTTPError \/ RequestFailed \/ LoopExhausted
SpecClient == InitClient /\ [][NextClient]_vars

Retryable(r) == r.status = 0 \/ r.status >= 500
Last(h) == h[Len(h)]

\* C30: for every max_retries >= 0 the call makes at most max_retries
\* attempts, makes no attempt after a 4xx response, retries after 5xx
\* responses and transport errors until the attempts are exhausted, and ends
\* only by returning a successful response or by raising the last error.
C30_RetryLoop ==
    /\ Len(history) <= max_retries
    /\ \A i \in 1..(Len(history) - 1) : Retryable(history[i])
    /\ (Calling /\ history # <<>>) => Retryable(Last(history)) /\ Len(history) < max_retries
    /\ ~Calling =>
          \/ /\ call_outcome = "returned"
             /\ history # <<>> /\ Last(history).status \in SuccessCodes
          \/ /\ call_outcome = "raised"
             /\ history # <<>>
             /\ \/ is_client_error(Last(history).status)
                \/ Retryable(Last(history)) /\ Len(history) = max_retries

=============================================================================
